---- MODULE Spec2Model ----
(***************************************************************************)
(* A model of the image-printer application (App component, latest         *)
(* revision): the four per-slot editor states and the dispatcher that      *)
(* routes edits to the active slot, the template collection, and the       *)
(* high-resolution print preparation with its swap of the print container. *)
(***************************************************************************)
EXTENDS Integers, Sequences, FiniteSets, TLC

VARIABLES
    layoutMode,       \* useState layoutMode
    activeEditor,     \* useState activeEditor (the selected slot)
    canvasMargins,    \* useState canvasMargins
    editorStates,     \* useState editorStates: slot -> reference to a state object
    heap,             \* the state objects the references of editorStates point to
    templates,        \* useState templates
    now,              \* the value Date.now() returns
    pending,          \* asynchronous requests in flight (QR encoding, file read, thumbnail)
    editorStageRefs,  \* editorStageRefs.current: slot -> is the handle non-null
    editorRef,        \* editorRef.current: is the handle non-null
    pc,               \* position of the print operation
    job,              \* what the running print preparation closed over and has done
    container,        \* DOM content of the print container (printContentRef)
    printed,          \* what the platform print flow was given, per request
    printVersion,     \* useState printVersion
    crashed,          \* a commit threw out of React (no error boundary)
    ops,              \* number of user operations so far
    budget,           \* number of user operations explored
    lastOp,           \* history: the last handler that ran
    usedIds,          \* history: slot -> ids ever given to an element created in it
    stored,           \* localStorage item "imagePrinterTemplates"
    bootStored,       \* history: that item as the application found it at start-up
    persistError,     \* history: the last localStorage.setItem threw
    stageSize,        \* width and height of the Konva stage behind each handle
    imageFit          \* image, canvas size and imageDimensions of the top-left card's Editor

vars == <<layoutMode, activeEditor, canvasMargins, editorStates, heap, templates,
          now, pending, editorStageRefs, editorRef, pc, job, container, printed,
          printVersion, crashed, ops, budget, lastOp, usedIds, stored, bootStored,
          persistError, stageSize, imageFit>>

-----------------------------------------------------------------------------
(* Bounds of the exploration                                                *)

MaxOps == 2          \* user operations in the full specification
MaxOpsEdit == 3      \* user operations in the editing specification
MaxOpsIds == 4       \* user operations in the element-id specification
MaxOpsPrint == 3     \* user operations in the print specification
MaxOpsTpl == 4       \* user operations in the template specification
MaxClock == 1        \* Date.now() takes the values 0..MaxClock
MaxOpsStore == 3     \* user operations in the template-store specification
MaxOpsGeom == 1      \* user operations in the print-geometry specification
MaxOpsRoute == 4     \* user operations in the edit-routing specification
MaxOpsFit == 3       \* user operations in the image-fit specification
MaxOpsDrag == 4      \* user operations in the drag specification
MaxOpsShot == 4      \* user operations in the capture specification
MaxOpsClip == 3      \* user operations in the clip-path specification
MaxOpsRemove == 5    \* user operations in the removal specification

-----------------------------------------------------------------------------
(* Program constants                                                        *)

PRINT_ASPECT_RATIO_WIDTH == 600
PRINT_ASPECT_RATIO_HEIGHT == 400
PRINT_PORTRAIT_WIDTH == 400
PRINT_PORTRAIT_HEIGHT == 600
multiplier == 3

Slots == {"top-left", "top-right", "bottom-left", "bottom-right"}
SlotOrder == <<"top-left", "top-right", "bottom-left", "bottom-right">>
LayoutModes == {"current", "2x3", "4cards", "4cards-portrait"}

\* Strings whose characters the code inspects are sequences of characters.
Str_Empty == <<>>
Str_Blank == <<" ">>
Str_NewText == <<"N", "e", "w", " ", "T", "e", "x", "t">>
Str_Hello == <<"H", "e", "l", "l", "o">>

initialEditorState ==
    [imageDataUrl |-> "null",
     borderColor |-> "#000000",
     borderThickness |-> 0,
     cornerRadius |-> 0,
     texts |-> <<>>,
     qrCodes |-> <<>>,
     scale |-> 1,
     rotation |-> 0,
     defaultTextContent |-> Str_NewText,
     defaultTextFontSize |-> 20,
     defaultTextColor |-> "#FF0000"]

\* Values the controls can send (a small sample of each input's range).
Colors == {"#000000", "#00FF00"}
Thicknesses == {0, 10}
Radii == {0, 20}
\* Values of the thickness slider (0 .. 50) and of the corner radius slider
\* (0 .. 100): both ends and values in between.
SliderThicknesses == {0, 1, 25, 50}
SliderRadii == {0, 50, 99, 100}
Scales == {1, 2}
Rotations == {0, 90}
FontSizes == {20, 30}
TextColors == {"#FF0000", "#0000FF"}
Contents == {Str_NewText, Str_Hello, Str_Blank, Str_Empty}
DragPositions == {[x |-> 120, y |-> 80]}
MarginValues == {0, 10}
ImageSizes ==
    {[width |-> 1, height |-> 3], [width |-> 3, height |-> 1], [width |-> 3, height |-> 2],
     [width |-> 2, height |-> 3], [width |-> 1, height |-> 1], [width |-> 3, height |-> 7],
     [width |-> 640, height |-> 480], [width |-> 4000, height |-> 3000],
     [width |-> 1920, height |-> 1080], [width |-> 1080, height |-> 1920]}
GeomMargins == {0, 1, 10, 20, 100}
Urls == {"", "https://example.com"}
TemplateNames == {"", "Postcard", "Gift"}

-----------------------------------------------------------------------------
(* The state objects. A slot holds a reference; several slots may hold the  *)
(* same reference (all four hold reference 0, initialEditorState, at        *)
(* start-up). An object created for a slot takes the slot's own cell: the   *)
(* object it replaces there is no longer referenced by editorStates.        *)

ObjIds == 0 .. 4

ObjId(key) ==
    CASE key = "top-left" -> 1
      [] key = "top-right" -> 2
      [] key = "bottom-left" -> 3
      [] key = "bottom-right" -> 4

StateOf(slot) == heap[editorStates[slot]]

\* const activeState = layoutMode === "current" ? editorStates["top-left"] : editorStates[activeEditor]
ActiveSlot(mode, active) == IF mode = "current" THEN "top-left" ELSE active

activeState == StateOf(ActiveSlot(layoutMode, activeEditor))

\* The key setActiveState resolves from the layout mode and the selected slot.
EditorKey_NoMapping(mode, active) == IF mode = "current" THEN "top-left" ELSE active

EditorKey(mode, active) ==
    IF mode = "current" THEN "top-left"
    ELSE IF mode = "2x3"
         THEN (IF active = "top-left" \/ active = "top-right" THEN active ELSE "top-left")
         ELSE active

\* setEditorStates((prev) => ({ ...prev, [editorKey]: newValue })): a new object
\* for editorKey, every other entry keeps its reference.
SetEditorStates_InPlace(refs, hp, key, newValue) ==
    [refs |-> refs, heap |-> [hp EXCEPT ![refs[key]] = newValue]]

SetEditorStates(refs, hp, key, newValue) ==
    [refs |-> [refs EXCEPT ![key] = ObjId(key)],
     heap |-> [hp EXCEPT ![ObjId(key)] = newValue]]

-----------------------------------------------------------------------------
(* The updaters the handlers pass to setActiveState: prev -> next           *)

\* `text-${prev.texts.length}-${Date.now()}` and `qrcode-${...}-${...}`: the
\* string is determined by, and determines, the prefix and the two numbers.
TextId(n, t) == <<"text", n, t>>
QrId(n, t) == <<"qrcode", n, t>>

Ids(elements) == {elements[i].id : i \in DOMAIN elements}

WithImage(prev, dataUrl) == [prev EXCEPT !.imageDataUrl = dataUrl]
WithBorderColor(prev, color) == [prev EXCEPT !.borderColor = color]
WithBorderThickness(prev, thickness) == [prev EXCEPT !.borderThickness = thickness]
WithCornerRadius(prev, radius) == [prev EXCEPT !.cornerRadius = radius]
WithScale(prev, scale) == [prev EXCEPT !.scale = scale]
WithRotation(prev, rotation) == [prev EXCEPT !.rotation = rotation]
WithDefaultTextContent(prev, content) == [prev EXCEPT !.defaultTextContent = content]
WithDefaultTextFontSize(prev, size) == [prev EXCEPT !.defaultTextFontSize = size]
WithDefaultTextColor(prev, color) == [prev EXCEPT !.defaultTextColor = color]

NewText(prev, content, t) ==
    [id |-> TextId(Len(prev.texts), t),
     x |-> 50,
     y |-> 50,
     content |-> content,
     fontSize |-> prev.defaultTextFontSize,
     fontFamily |-> "Arial",
     fill |-> prev.defaultTextColor,
     fontStyle |-> "undefined"]

AddText(prev, content, t) ==
    [prev EXCEPT !.texts = Append(prev.texts, NewText(prev, content, t))]

TextDragEnd(prev, id, newX, newY) ==
    [prev EXCEPT !.texts =
        [i \in DOMAIN prev.texts |->
            IF prev.texts[i].id = id
            THEN [prev.texts[i] EXCEPT !.x = newX, !.y = newY]
            ELSE prev.texts[i]]]

EditText(prev, id, newContent) ==
    [prev EXCEPT !.texts =
        [i \in DOMAIN prev.texts |->
            IF prev.texts[i].id = id
            THEN [prev.texts[i] EXCEPT !.content = newContent]
            ELSE prev.texts[i]]]

ToggleTextBold(prev, id) ==
    [prev EXCEPT !.texts =
        [i \in DOMAIN prev.texts |->
            IF prev.texts[i].id = id
            THEN [prev.texts[i] EXCEPT
                     !.fontStyle = IF prev.texts[i].fontStyle = "bold" THEN "normal" ELSE "bold"]
            ELSE prev.texts[i]]]

RemoveText(prev, id) ==
    [prev EXCEPT !.texts = SelectSeq(prev.texts, LAMBDA text : text.id # id)]

NewQrCode(prev, qrDataUrl, t) ==
    [id |-> QrId(Len(prev.qrCodes), t),
     x |-> 100,
     y |-> 100,
     dataUrl |-> qrDataUrl,
     size |-> 100]

AddQrCode(prev, qrDataUrl, t) ==
    [prev EXCEPT !.qrCodes = Append(prev.qrCodes, NewQrCode(prev, qrDataUrl, t))]

QrCodeDragEnd(prev, id, newX, newY) ==
    [prev EXCEPT !.qrCodes =
        [i \in DOMAIN prev.qrCodes |->
            IF prev.qrCodes[i].id = id
            THEN [prev.qrCodes[i] EXCEPT !.x = newX, !.y = newY]
            ELSE prev.qrCodes[i]]]

RemoveQrCode(prev, id) ==
    [prev EXCEPT !.qrCodes = SelectSeq(prev.qrCodes, LAMBDA qr : qr.id # id)]

-----------------------------------------------------------------------------
(* Templates                                                                *)

\* state.defaultTextContent.substring(0, 10) + (length > 10 ? "..." : "")
Truncated(content) ==
    IF Len(content) > 10
    THEN SubSeq(content, 1, 10) \o <<".", ".", ".">>
    ELSE content

\* What generateThumbnail draws, which is what its data URL encodes.
GenerateThumbnail(state) ==
    [border |-> state.borderThickness > 0,
     borderFill |-> IF state.borderThickness > 0 THEN state.borderColor ELSE "",
     borderRadius |-> IF state.borderThickness > 0
                      THEN state.cornerRadius + state.borderThickness ELSE 0,
     text |-> IF state.defaultTextContent # <<>>
              THEN Truncated(state.defaultTextContent) ELSE <<>>,
     textFill |-> IF state.defaultTextContent # <<>> THEN state.defaultTextColor ELSE ""]

\* const { imageDataUrl, scale, rotation, qrCodes, ...settingsToSave } = activeState
SettingsToSave(state) ==
    [k \in DOMAIN state \ {"imageDataUrl", "scale", "rotation", "qrCodes"} |-> state[k]]

\* { name, ...settingsToSave, thumbnailDataUrl }
NewTemplate(name, state, thumbnailDataUrl) ==
    [k \in {"name", "thumbnailDataUrl"} \cup DOMAIN SettingsToSave(state) |->
        IF k = "name" THEN name
        ELSE IF k = "thumbnailDataUrl" THEN thumbnailDataUrl
        ELSE SettingsToSave(state)[k]]

\* prev.findIndex((t) => t.name === name): the first index, 0 when there is none
FindIndex(prev, name) ==
    IF \E i \in DOMAIN prev : prev[i].name = name
    THEN CHOOSE i \in DOMAIN prev :
            /\ prev[i].name = name
            /\ \A j \in DOMAIN prev : prev[j].name = name => i <= j
    ELSE 0

UpsertTemplate_AlwaysAppend(prev, newTemplate) == Append(prev, newTemplate)

UpsertTemplate(prev, newTemplate) ==
    IF FindIndex(prev, newTemplate.name) > 0
    THEN [prev EXCEPT ![FindIndex(prev, newTemplate.name)] = newTemplate]
    ELSE Append(prev, newTemplate)

\* prev.filter((t) => t.name !== name)
WithoutTemplate_KeepsNamed(prev, name) == SelectSeq(prev, LAMBDA t : t.name = name)

WithoutTemplate(prev, name) == SelectSeq(prev, LAMBDA t : t.name # name)

\* The updater of loadTemplate; template.texts || [] is [] for a template
\* stored without a texts list.
LoadTemplate(prev, template) ==
    [prev EXCEPT
        !.borderColor = template.borderColor,
        !.borderThickness = template.borderThickness,
        !.cornerRadius = template.cornerRadius,
        !.defaultTextContent = template.defaultTextContent,
        !.defaultTextFontSize = template.defaultTextFontSize,
        !.defaultTextColor = template.defaultTextColor,
        !.texts = IF "texts" \in DOMAIN template THEN template.texts ELSE <<>>]

-----------------------------------------------------------------------------
(* Number arithmetic of the image fit. The Editor computes the fit with     *)
(* JavaScript Numbers: each division and multiplication is rounded to the   *)
(* nearest binary64 value.                                                  *)

\* A natural number of any size: its digits in base 2^15, least significant
\* first, with no zero digit at the high end; <<>> is 0.
Base == 2 ^ 15

RECURSIVE DigitsOf(_)
DigitsOf(n) == IF n = 0 THEN <<>> ELSE <<n % Base>> \o DigitsOf(n \div Base)

Trim(a) ==
    IF \A i \in DOMAIN a : a[i] = 0 THEN <<>>
    ELSE SubSeq(a, 1, CHOOSE i \in DOMAIN a :
                         a[i] # 0 /\ \A j \in (i + 1)..Len(a) : a[j] = 0)

DigitAt(a, i) == IF i \in DOMAIN a THEN a[i] ELSE 0

DigitsLess(a, b) ==
    IF Len(a) # Len(b) THEN Len(a) < Len(b)
    ELSE \E i \in DOMAIN a :
            /\ a[i] < b[i]
            /\ \A j \in (i + 1)..Len(a) : a[j] = b[j]

RECURSIVE AddFrom(_, _, _, _)
AddFrom(a, b, i, carry) ==
    IF i > Len(a) /\ i > Len(b)
    THEN IF carry = 0 THEN <<>> ELSE <<carry>>
    ELSE LET s == DigitAt(a, i) + DigitAt(b, i) + carry
         IN <<s % Base>> \o AddFrom(a, b, i + 1, s \div Base)
DigitsAdd(a, b) == AddFrom(a, b, 1, 0)

\* a - b for a >= b
RECURSIVE SubFrom(_, _, _, _)
SubFrom(a, b, i, borrow) ==
    IF i > Len(a) THEN <<>>
    ELSE LET d == a[i] - DigitAt(b, i) - borrow
         IN <<d % Base>> \o SubFrom(a, b, i + 1, IF d < 0 THEN 1 ELSE 0)
DigitsSub(a, b) == Trim(SubFrom(a, b, 1, 0))

\* a * k for a digit k
RECURSIVE MulDigitFrom(_, _, _, _)
MulDigitFrom(a, k, i, carry) ==
    IF i > Len(a)
    THEN IF carry = 0 THEN <<>> ELSE <<carry>>
    ELSE LET p == a[i] * k + carry
         IN <<p % Base>> \o MulDigitFrom(a, k, i + 1, p \div Base)

RECURSIVE MulFrom(_, _, _)
MulFrom(a, b, i) ==
    IF i > Len(b) THEN <<>>
    ELSE LET rest == MulFrom(a, b, i + 1)
             shifted == IF rest = <<>> THEN <<>> ELSE <<0>> \o rest
         IN DigitsAdd(shifted, MulDigitFrom(a, b[i], 1, 0))
DigitsMul(a, b) == Trim(MulFrom(a, b, 1))

\* The number of binary digits of a
BitLength(a) ==
    IF a = <<>> THEN 0
    ELSE 15 * (Len(a) - 1) + (CHOOSE k \in 1..15 : 2 ^ (k - 1) <= a[Len(a)] /\ a[Len(a)] < 2 ^ k)

\* a * 2^s
ShiftLeft(a, s) ==
    LET whole == s \div 15
        part == s % 15
        moved == [i \in 1..(Len(a) + 1) |->
                    (DigitAt(a, i) % 2 ^ (15 - part)) * 2 ^ part
                      + DigitAt(a, i - 1) \div 2 ^ (15 - part)]
    IN IF a = <<>> THEN <<>> ELSE [i \in 1..whole |-> 0] \o Trim(moved)

\* floor(a / 2^s)
ShiftRight(a, s) ==
    LET whole == s \div 15
        part == s % 15
        rest == IF whole >= Len(a) THEN <<>> ELSE SubSeq(a, whole + 1, Len(a))
    IN Trim([i \in DOMAIN rest |->
                rest[i] \div 2 ^ part + (DigitAt(rest, i + 1) % 2 ^ part) * 2 ^ (15 - part)])

IsOdd(a) == a # <<>> /\ a[1] % 2 = 1

\* A JavaScript Number that is not negative (IEEE 754 binary64; the exponent
\* range is not reached by these computations): sig * 2^exp with a sig of
\* exactly Precision binary digits, or zero.
Precision == 53
Zero == [sig |-> <<>>, exp |-> 0]

\* Round to nearest, ties to even: the Number nearest to the exact value
\* a * 2^exp, or a * 2^exp plus a fraction of 2^exp when inexact.
RoundToNumber(a, exp, inexact) ==
    IF a = <<>> THEN Zero
    ELSE IF BitLength(a) <= Precision
    THEN [sig |-> ShiftLeft(a, Precision - BitLength(a)),
          exp |-> exp - (Precision - BitLength(a))]
    ELSE LET drop == BitLength(a) - Precision
             kept == ShiftRight(a, drop)
             guard == IsOdd(ShiftRight(a, drop - 1))
             sticky == inexact \/ ShiftLeft(ShiftRight(a, drop - 1), drop - 1) # a
             up == guard /\ (sticky \/ IsOdd(kept))
             sum == IF up THEN DigitsAdd(kept, <<1>>) ELSE kept
         IN IF BitLength(sum) > Precision
            THEN [sig |-> ShiftRight(sum, 1), exp |-> exp + drop + 1]
            ELSE [sig |-> sum, exp |-> exp + drop]

NumberOf(n) == RoundToNumber(DigitsOf(n), 0, FALSE)

\* a * b
Times(a, b) == RoundToNumber(DigitsMul(a.sig, b.sig), a.exp + b.exp, FALSE)

\* Long division of significands: count more binary digits of rem / d, each
\* step's remainder and quotient computed before the next step is taken.
RECURSIVE DivFrom(_, _, _, _)
DivFrom(rem, d, quot, count) ==
    IF count = 0
    THEN [quot |-> quot, inexact |-> rem # <<>>]
    ELSE LET twice == DigitsAdd(rem, rem)
             less == DigitsLess(twice, d)
             nextRem == IF less THEN twice ELSE DigitsSub(twice, d)
             nextQuot == IF less THEN DigitsAdd(quot, quot)
                         ELSE DigitsAdd(DigitsAdd(quot, quot), <<1>>)
         IN IF nextRem = nextRem /\ nextQuot = nextQuot
            THEN DivFrom(nextRem, d, nextQuot, count - 1)
            ELSE [quot |-> quot, inexact |-> FALSE]

\* a / b for b # 0. Both significands have Precision digits, so a.sig / b.sig
\* lies between 1/2 and 2, and Precision + 1 further digits decide the rounding.
Over(a, b) ==
    IF a.sig = <<>> THEN Zero
    ELSE LET first == ~DigitsLess(a.sig, b.sig)
             q == DivFrom(IF first THEN DigitsSub(a.sig, b.sig) ELSE a.sig, b.sig,
                          IF first THEN <<1>> ELSE <<>>, Precision + 1)
         IN RoundToNumber(q.quot, a.exp - b.exp - (Precision + 1), q.inexact)

\* a < b
NumberLess(a, b) ==
    IF b.sig = <<>> THEN FALSE
    ELSE IF a.sig = <<>> THEN TRUE
    ELSE IF a.exp # b.exp THEN a.exp < b.exp
    ELSE DigitsLess(a.sig, b.sig)

\* The image-fit effect of the Editor:
\*   const aspectRatio = image.width / image.height;
\*   let newWidth = canvasWidth; let newHeight = canvasWidth / aspectRatio;
\*   if (newHeight > canvasHeight) { newHeight = canvasHeight; newWidth = canvasHeight * aspectRatio; }
ImageFit_NoHeightCheck(imageWidth, imageHeight, canvasWidth, canvasHeight) ==
    LET aspectRatio == Over(NumberOf(imageWidth), NumberOf(imageHeight))
    IN [width |-> NumberOf(canvasWidth), height |-> Over(NumberOf(canvasWidth), aspectRatio)]

ImageFit(imageWidth, imageHeight, canvasWidth, canvasHeight) ==
    LET aspectRatio == Over(NumberOf(imageWidth), NumberOf(imageHeight))
        newHeight == Over(NumberOf(canvasWidth), aspectRatio)
    IN IF NumberLess(NumberOf(canvasHeight), newHeight)
       THEN [width |-> Times(NumberOf(canvasHeight), aspectRatio),
             height |-> NumberOf(canvasHeight)]
       ELSE [width |-> NumberOf(canvasWidth), height |-> newHeight]

\* The Editor of the top-left card: the image useImage gave it (none while
\* there is no image), its canvasWidth and canvasHeight, and its
\* imageDimensions state, { width: 0, height: 0 } until the effect has run.
NoImage == [width |-> 0, height |-> 0]
NoFit(canvas) ==
    [image |-> NoImage, canvas |-> canvas, dimensions |-> [width |-> Zero, height |-> Zero]]

\* The effect body: if (image) { ...; setImageDimensions({ width: newWidth, height: newHeight }) }
FitEffect(fit, image, canvas) ==
    [image |-> image,
     canvas |-> canvas,
     dimensions |-> IF image = NoImage THEN fit.dimensions
                    ELSE ImageFit(image.width, image.height, canvas.width, canvas.height)]

-----------------------------------------------------------------------------
(* Template persistence: the localStorage item "imagePrinterTemplates"      *)

\* What localStorage.getItem returns: null when there is no item, otherwise a
\* string, which is empty, is not JSON, or is the JSON text of some value.
NoItem == [item |-> "none"]
EmptyString == [item |-> "string", json |-> "empty"]
Unparseable == [item |-> "string", json |-> "invalid"]
JsonNotArray == [item |-> "string", json |-> "object"]
JsonArray(elems) == [item |-> "string", json |-> "array", elems |-> elems]

\* JSON.stringify leaves out a property whose value is undefined (the
\* fontStyle of a text that was never toggled).
StringifyText(text) ==
    IF text.fontStyle = "undefined"
    THEN [k \in DOMAIN text \ {"fontStyle"} |-> text[k]]
    ELSE text

StringifyTemplate(t) ==
    IF "texts" \in DOMAIN t
    THEN [t EXCEPT !.texts = [i \in DOMAIN t.texts |-> StringifyText(t.texts[i])]]
    ELSE t

\* JSON.stringify(templates)
Stringify(ts) == JsonArray([i \in DOMAIN ts |-> StringifyTemplate(ts[i])])

\* Reading a property that the JSON text left out gives undefined.
ParseText(o) ==
    IF "fontStyle" \in DOMAIN o
    THEN o
    ELSE [k \in DOMAIN o \cup {"fontStyle"} |->
            IF k = "fontStyle" THEN "undefined" ELSE o[k]]

ParseTemplate(o) ==
    IF "texts" \in DOMAIN o
    THEN [o EXCEPT !.texts = [i \in DOMAIN o.texts |-> ParseText(o.texts[i])]]
    ELSE o

\* The initializer of the templates state, where it yields an array:
\* try { return saved ? JSON.parse(saved) : [] } catch { return [] }
ReadTemplates(saved) ==
    IF saved.item = "none" \/ saved.json = "empty" THEN <<>>
    ELSE IF saved.json = "invalid" THEN <<>>
    ELSE [i \in DOMAIN saved.elems |-> ParseTemplate(saved.elems[i])]

\* JSON text of a value that is not an array (null, a number, an object)
\* parses without an exception, so the initializer returns that value, and
\* the first render of Controls calls templates.map on it, which throws. No
\* error boundary is mounted: React removes the whole tree.
FirstRenderThrows(saved) == saved.item = "string" /\ saved.json = "object"

\* The persist effect:
\*   try { localStorage.setItem("imagePrinterTemplates", JSON.stringify(templates)) }
\*   catch (error) { console.error(...) }
\* setItem throws when the storage refuses the write (quota exceeded, storage
\* disabled); the item then keeps its value.
PersistTemplates_KeepOnShrink(old, ts, accepted) ==
    IF accepted /\ ~(old.item = "string" /\ old.json = "array" /\ Len(ts) < Len(old.elems))
    THEN Stringify(ts)
    ELSE old

PersistTemplates(old, ts, accepted) == IF accepted THEN Stringify(ts) ELSE old

\* Templates an earlier session saved: one from a card with a border, one
\* from a card with a text.
SavedPostcard ==
    NewTemplate("Postcard", WithBorderThickness(initialEditorState, 10),
                GenerateThumbnail(WithBorderThickness(initialEditorState, 10)))
SavedGift ==
    NewTemplate("Gift", AddText(initialEditorState, Str_Hello, 0),
                GenerateThumbnail(AddText(initialEditorState, Str_Hello, 0)))

\* What the application may find under the storage key at start-up.
BootValues ==
    {NoItem, EmptyString, Unparseable, JsonNotArray,
     Stringify(<<>>), Stringify(<<SavedPostcard>>), Stringify(<<SavedPostcard, SavedGift>>)}

-----------------------------------------------------------------------------
(* Layout geometry                                                          *)

\* The Editor components editorPanelContent renders, by the stage handle each
\* sets in onStageReady ("single" is editorRef).
MountedStages(mode) ==
    IF mode = "current" THEN {"single"}
    ELSE IF mode = "2x3" THEN {"top-left", "top-right"}
    ELSE Slots

\* The slots whose card is on screen in a layout.
DisplayedSlots(mode) ==
    IF mode = "current" THEN {"top-left"}
    ELSE IF mode = "2x3" THEN {"top-left", "top-right"}
    ELSE Slots

\* The element editorPanelContent returns: <Editor> for the single layout, a
\* <div> wrapper for the others.
RootType(mode) == IF mode = "current" THEN "Editor" ELSE "div"

\* Editor clipFunc: the rounded rectangle the image is clipped to. The four
\* corners are quadratic curves that start and end `radius` away from the
\* corner along each edge.
ClipPath(canvas, borderThickness, cornerRadius) ==
    [rectX |-> borderThickness,
     rectY |-> borderThickness,
     rectWidth |-> canvas.width - borderThickness * 2,
     rectHeight |-> canvas.height - borderThickness * 2,
     radius |-> IF cornerRadius > 0 THEN cornerRadius ELSE 0]

\* The stage handles preparePrintContent reads, in the order it captures them.
CaptureOrder(mode) ==
    IF mode = "2x3" THEN <<"top-left", "top-right">>
    ELSE IF mode = "4cards" \/ mode = "4cards-portrait" THEN SlotOrder
    ELSE <<"single">>

Range(seq) == {seq[i] : i \in DOMAIN seq}

HandleSet(stageKey, refs, single) ==
    IF stageKey = "single" THEN single ELSE refs[stageKey]

\* if (!leftStage || !rightStage) return; ... if (!tlStage || ...) return; if (!stage) return
StagesReady_FirstOnly(mode, refs, single) ==
    HandleSet(CaptureOrder(mode)[1], refs, single)

StagesReady(mode, refs, single) ==
    \A k \in Range(CaptureOrder(mode)) : HandleSet(k, refs, single)

\* canvasWidth and canvasHeight of the Editors of a layout (the size of their stage)
CanvasSize(mode) ==
    IF mode = "current"
    THEN [width |-> PRINT_ASPECT_RATIO_WIDTH, height |-> PRINT_ASPECT_RATIO_HEIGHT]
    ELSE IF mode = "2x3"
    THEN [width |-> PRINT_ASPECT_RATIO_WIDTH \div 2, height |-> PRINT_ASPECT_RATIO_HEIGHT]
    ELSE IF mode = "4cards"
    THEN [width |-> PRINT_ASPECT_RATIO_WIDTH \div 2, height |-> PRINT_ASPECT_RATIO_HEIGHT \div 2]
    ELSE [width |-> PRINT_PORTRAIT_WIDTH \div 2, height |-> PRINT_PORTRAIT_HEIGHT \div 2]

StageKeys == Slots \cup {"single"}
NoStage == [width |-> 0, height |-> 0]

\* The stages after the render of a layout: the Editors it mounts get its size.
StagesRendered(sizes, mode) ==
    [k \in StageKeys |-> IF k \in MountedStages(mode) THEN CanvasSize(mode) ELSE sizes[k]]

\* stage.toCanvas({ pixelRatio: multiplier }) draws the stage into a canvas of
\* its own, pixelRatio times the stage's size; the stage keeps its attributes.
StagesAfterCapture_Resized(sizes, captured) ==
    [k \in StageKeys |->
        IF k \in captured
        THEN [width |-> sizes[k].width * multiplier, height |-> sizes[k].height * multiplier]
        ELSE sizes[k]]

StagesAfterCapture(sizes, captured) == sizes

\* marginTop, marginBottom, marginLeft and marginRight of the Editor a layout
\* renders for a stage key: all four canvas margins in the single and 2x3
\* layouts, the margins of the outer edges of its quadrant in the 4-grids.
EditorMargins_AllSides(mode, stageKey, margins) ==
    [top |-> margins.top, bottom |-> margins.bottom,
     left |-> margins.left, right |-> margins.right]

EditorMargins(mode, stageKey, margins) ==
    IF mode = "4cards" \/ mode = "4cards-portrait"
    THEN CASE stageKey = "top-left" ->
                [top |-> margins.top, bottom |-> 0, left |-> margins.left, right |-> 0]
           [] stageKey = "top-right" ->
                [top |-> margins.top, bottom |-> 0, left |-> 0, right |-> margins.right]
           [] stageKey = "bottom-left" ->
                [top |-> 0, bottom |-> margins.bottom, left |-> margins.left, right |-> 0]
           [] stageKey = "bottom-right" ->
                [top |-> 0, bottom |-> margins.bottom, left |-> 0, right |-> margins.right]
    ELSE [top |-> margins.top, bottom |-> margins.bottom,
          left |-> margins.left, right |-> margins.right]

PrintWidth(mode) ==
    IF mode = "4cards-portrait" THEN PRINT_PORTRAIT_WIDTH ELSE PRINT_ASPECT_RATIO_WIDTH
PrintHeight(mode) ==
    IF mode = "4cards-portrait" THEN PRINT_PORTRAIT_HEIGHT ELSE PRINT_ASPECT_RATIO_HEIGHT

\* The destination rectangle of a captured card in the combined canvas, in
\* half device pixels (contentWidth / 2 need not be whole).
DestRect_NoLeftOffset(mode, margins, stageKey) ==
    LET marginLeft == margins.left * multiplier
        marginTop == margins.top * multiplier
        contentWidth == PrintWidth(mode) * multiplier - marginLeft - margins.right * multiplier
        contentHeight == PrintHeight(mode) * multiplier - marginTop - margins.bottom * multiplier
        right == stageKey \in {"top-right", "bottom-right"}
        bottom == stageKey \in {"bottom-left", "bottom-right"}
    IN  IF mode = "current"
        THEN [x |-> 2 * marginLeft, y |-> 2 * marginTop,
              w |-> 2 * contentWidth, h |-> 2 * contentHeight]
        ELSE [x |-> IF right THEN contentWidth ELSE 2 * marginLeft,
              y |-> 2 * marginTop + (IF bottom /\ mode # "2x3" THEN contentHeight ELSE 0),
              w |-> contentWidth,
              h |-> IF mode = "2x3" THEN 2 * contentHeight ELSE contentHeight]

DestRect(mode, margins, stageKey) ==
    LET highResWidth == PrintWidth(mode) * multiplier
        highResHeight == PrintHeight(mode) * multiplier
        marginLeft == margins.left * multiplier
        marginRight == margins.right * multiplier
        marginTop == margins.top * multiplier
        marginBottom == margins.bottom * multiplier
        contentWidth == highResWidth - marginLeft - marginRight
        contentHeight == highResHeight - marginTop - marginBottom
        right == stageKey \in {"top-right", "bottom-right"}
        bottom == stageKey \in {"bottom-left", "bottom-right"}
    IN  IF mode = "2x3"
        THEN [x |-> 2 * marginLeft + (IF right THEN contentWidth ELSE 0),
              y |-> 2 * marginTop,
              w |-> contentWidth,
              h |-> 2 * contentHeight]
        ELSE IF mode = "4cards" \/ mode = "4cards-portrait"
        THEN [x |-> 2 * marginLeft + (IF right THEN contentWidth ELSE 0),
              y |-> 2 * marginTop + (IF bottom THEN contentHeight ELSE 0),
              w |-> contentWidth,
              h |-> contentHeight]
        ELSE [x |-> 2 * marginLeft,
              y |-> 2 * marginTop,
              w |-> 2 * contentWidth,
              h |-> 2 * contentHeight]

-----------------------------------------------------------------------------
(* Initial state                                                            *)

NoMargins == [top |-> 0, bottom |-> 0, left |-> 0, right |-> 0]

NoJob ==
    [id |-> 0, layout |-> "current", margins |-> NoMargins, missing |-> FALSE,
     issued |-> {}, done |-> {}, drawn |-> {}, result |-> "none", outcome |-> "none",
     atStart |-> [k \in Slots |-> initialEditorState], shots |-> {}]

LiveEditor == [kind |-> "editor", cards |-> {}, job |-> 0]

\* The state after the first commit and its effects; accepted is whether the
\* storage took the write of the persist effect that runs on mount.
InitFrom(n, saved, accepted) ==
    /\ layoutMode = "current"
    /\ activeEditor = "top-left"
    /\ canvasMargins = NoMargins
    /\ editorStates = [s \in Slots |-> 0]
    /\ heap = [i \in ObjIds |-> initialEditorState]
    /\ templates = IF FirstRenderThrows(saved) THEN <<>> ELSE ReadTemplates(saved)
    /\ now = 0
    /\ pending = {}
    /\ editorStageRefs = [s \in Slots |-> FALSE]
    /\ editorRef = FALSE
    /\ pc = "idle"
    /\ job = NoJob
    /\ container = LiveEditor
    /\ printed = [kind |-> "none", cards |-> {}, job |-> 0]
    /\ printVersion = 0
    /\ crashed = FirstRenderThrows(saved)
    /\ ops = 0
    /\ budget = n
    /\ lastOp = [op |-> "init", key |-> "none"]
    /\ usedIds = [s \in Slots |-> {}]
    /\ stored = IF FirstRenderThrows(saved)
                THEN saved
                ELSE PersistTemplates(saved, ReadTemplates(saved), accepted)
    /\ bootStored = saved
    /\ persistError = (~FirstRenderThrows(saved) /\ ~accepted)
    /\ stageSize = StagesRendered([k \in StageKeys |-> NoStage], "current")
    /\ imageFit = NoFit(CanvasSize("current"))

\* Start-up with no stored templates.
InitWith(n) == InitFrom(n, NoItem, TRUE)

Init == InitWith(MaxOps)

-----------------------------------------------------------------------------
(* Scheduling: user events and continuations run one at a time on the main  *)
(* thread; none runs while the print dialog is open or after a crash.       *)

Running == ~crashed /\ pc # "dialog"
UserReady == Running /\ ops < budget

\* The card surfaces are on screen only while the print container still holds
\* the live editor.
OnScreen == container.kind = "editor"

Key == EditorKey(layoutMode, activeEditor)
Prev == StateOf(Key)

\* String.prototype.trim() leaves the empty string
IsBlank(content) == \A i \in DOMAIN content : content[i] = " "

\* setActiveState(updater) from a handler of the current render.
DispatchAs(last, key, newValue, newUsed) ==
    LET r == SetEditorStates(editorStates, heap, key, newValue) IN
    /\ editorStates' = r.refs
    /\ heap' = r.heap
    /\ lastOp' = last
    /\ usedIds' = newUsed
    /\ UNCHANGED <<layoutMode, activeEditor, canvasMargins, templates, now,
                   editorStageRefs, editorRef, pc, job, container, printed,
                   printVersion, crashed, budget,
                   stored, bootStored, imageFit, persistError, stageSize>>

Dispatch(opName, key, newValue, newUsed) ==
    DispatchAs([op |-> opName, key |-> key], key, newValue, newUsed)

\* A user-triggered synchronous handler.
Edit(opName, newValue) ==
    /\ UserReady
    /\ ops' = ops + 1
    /\ pending' = pending
    /\ Dispatch(opName, Key, newValue, usedIds)

\* A drag-end handler: the Editor of the card in `slot` calls the handler it
\* was given, which goes through setActiveState. The history keeps the slot
\* of the dragged element next to the key that was updated.
DragEdit(opName, slot, newValue) ==
    /\ UserReady
    /\ ops' = ops + 1
    /\ pending' = pending
    /\ DispatchAs([op |-> opName, key |-> Key, slot |-> slot], Key, newValue, usedIds)

\* A remove handler; the history keeps the id the button was pressed for.
RemoveEdit(opName, id, newValue) ==
    /\ UserReady
    /\ ops' = ops + 1
    /\ pending' = pending
    /\ DispatchAs([op |-> opName, key |-> Key, id |-> id], Key, newValue, usedIds)

\* A handler that returns without calling any setter.
NoEffect(opName) ==
    /\ ops' = ops + 1
    /\ lastOp' = [op |-> opName, key |-> "none"]
    /\ UNCHANGED <<layoutMode, activeEditor, canvasMargins, editorStates, heap,
                   templates, now, pending, editorStageRefs, editorRef, pc, job,
                   container, printed, printVersion, crashed, budget,
                   stored, bootStored, imageFit, persistError, stageSize, usedIds>>

\* A handler that only starts an asynchronous request.
Request(opName, kind, key, arg) ==
    /\ ops' = ops + 1
    /\ pending' = pending \cup {[id |-> ops, kind |-> kind, key |-> key, arg |-> arg]}
    /\ lastOp' = [op |-> opName, key |-> key]
    /\ UNCHANGED <<layoutMode, activeEditor, canvasMargins, editorStates, heap,
                   templates, now, editorStageRefs, editorRef, pc, job,
                   container, printed, printVersion, crashed, budget,
                   stored, bootStored, imageFit, persistError, stageSize, usedIds>>

-----------------------------------------------------------------------------
(* Layout coordinator                                                       *)

\* onLayoutChange={setLayoutMode}; the button of the current mode is disabled.
\* The re-render replaces the root element of the print container when its
\* type changes; removing a root that the print preparation already detached
\* (innerHTML = "") throws out of the commit.
LayoutChange(mode) ==
    /\ UserReady
    /\ mode # layoutMode
    /\ layoutMode' = mode
    /\ crashed' = (RootType(mode) # RootType(layoutMode) /\ container.kind = "raster")
    /\ ops' = ops + 1
    /\ lastOp' = [op |-> "LayoutChange", key |-> "none"]
    /\ stageSize' = StagesRendered(stageSize, mode)
    /\ imageFit' = FitEffect(imageFit, imageFit.image, CanvasSize(mode))
    /\ UNCHANGED <<activeEditor, canvasMargins, editorStates, heap, templates, now,
                   pending, editorStageRefs, editorRef, pc, job, container, printed,
                   printVersion, budget, stored, bootStored, persistError, usedIds>>

\* onClick={() => setActiveEditor(slot)} on a card wrapper (multi-card layouts)
ClickCard(slot) ==
    /\ UserReady
    /\ OnScreen
    /\ layoutMode # "current"
    /\ slot \in DisplayedSlots(layoutMode)
    /\ activeEditor' = slot
    /\ ops' = ops + 1
    /\ lastOp' = [op |-> "ClickCard", key |-> slot]
    /\ UNCHANGED <<layoutMode, canvasMargins, editorStates, heap, templates, now,
                   pending, editorStageRefs, editorRef, pc, job, container, printed,
                   printVersion, crashed, budget,
                   stored, bootStored, imageFit, persistError, stageSize, usedIds>>

\* The onStageReady effect of a mounted Editor stores its stage handle. It is a
\* passive effect: it runs after the commit that mounted the Editor, as a step
\* of its own, and nothing clears a handle when its Editor unmounts.
StageReady(stageKey) ==
    /\ Running
    /\ stageKey \in MountedStages(layoutMode)
    /\ ~HandleSet(stageKey, editorStageRefs, editorRef)
    /\ IF stageKey = "single"
       THEN editorRef' = TRUE /\ UNCHANGED editorStageRefs
       ELSE editorStageRefs' = [editorStageRefs EXCEPT ![stageKey] = TRUE]
            /\ UNCHANGED editorRef
    /\ lastOp' = [op |-> "StageReady", key |-> stageKey]
    /\ UNCHANGED <<layoutMode, activeEditor, canvasMargins, editorStates, heap,
                   templates, now, pending, pc, job, container, printed,
                   printVersion, crashed, ops, budget,
                   stored, bootStored, imageFit, persistError, stageSize, usedIds>>

\* Date.now() advances.
Tick ==
    /\ Running
    /\ now < MaxClock
    /\ now' = now + 1
    /\ lastOp' = [op |-> "Tick", key |-> "none"]
    /\ UNCHANGED <<layoutMode, activeEditor, canvasMargins, editorStates, heap,
                   templates, pending, editorStageRefs, editorRef, pc, job,
                   container, printed, printVersion, crashed, ops, budget,
                   stored, bootStored, imageFit, persistError, stageSize, usedIds>>

\* handleCanvasMargin{Top,Bottom,Left,Right}Change
CanvasMarginChange(side, margin) ==
    /\ UserReady
    /\ canvasMargins' = [canvasMargins EXCEPT ![side] = margin]
    /\ ops' = ops + 1
    /\ lastOp' = [op |-> "CanvasMarginChange", key |-> "none"]
    /\ UNCHANGED <<layoutMode, activeEditor, editorStates, heap, templates, now,
                   pending, editorStageRefs, editorRef, pc, job, container, printed,
                   printVersion, crashed, budget,
                   stored, bootStored, imageFit, persistError, stageSize, usedIds>>

-----------------------------------------------------------------------------
(* Mutation handlers                                                        *)

\* Controls.handleImageChange: the file is read asynchronously; onloadend calls
\* the onImageUpload of the render in which the file was chosen.
ImageChange(dataUrl) ==
    /\ UserReady
    /\ Request("ImageChange", "image", Key, dataUrl)

HandleImageUpload ==
    /\ Running
    /\ \E req \in pending :
        /\ req.kind = "image"
        /\ pending' = pending \ {req}
        /\ ops' = ops
        /\ Dispatch("ImageUpload", req.key, WithImage(heap[editorStates[req.key]], req.arg),
                    usedIds)

\* The Remove Image button is rendered while activeState.imageDataUrl is set.
HandleRemoveImage ==
    /\ activeState.imageDataUrl # "null"
    /\ Edit("RemoveImage", WithImage(Prev, "null"))

\* useImage has decoded the data URL of the top-left card: the Editor renders
\* with the image, of natural size image.width by image.height, and the
\* image-fit effect runs.
ImageDecoded(image) ==
    /\ Running
    /\ StateOf("top-left").imageDataUrl # "null"
    /\ imageFit.image = NoImage
    /\ imageFit' = FitEffect(imageFit, image, CanvasSize(layoutMode))
    /\ lastOp' = [op |-> "ImageDecoded", key |-> "top-left"]
    /\ UNCHANGED <<layoutMode, activeEditor, canvasMargins, editorStates, heap,
                   templates, now, pending, editorStageRefs, editorRef, pc, job,
                   container, printed, printVersion, crashed, ops, budget,
                   stored, bootStored, persistError, stageSize, usedIds>>

HandleBorderColorChange(color) == Edit("BorderColorChange", WithBorderColor(Prev, color))
HandleBorderThicknessChange(thickness) ==
    Edit("BorderThicknessChange", WithBorderThickness(Prev, thickness))
HandleCornerRadiusChange(radius) == Edit("CornerRadiusChange", WithCornerRadius(Prev, radius))
HandleScaleChange(scale) == Edit("ScaleChange", WithScale(Prev, scale))
HandleRotationChange(rotation) == Edit("RotationChange", WithRotation(Prev, rotation))
HandleDefaultTextContentChange(content) ==
    Edit("DefaultTextContentChange", WithDefaultTextContent(Prev, content))
HandleDefaultTextFontSizeChange(size) ==
    Edit("DefaultTextFontSizeChange", WithDefaultTextFontSize(Prev, size))
HandleDefaultTextColorChange(color) ==
    Edit("DefaultTextColorChange", WithDefaultTextColor(Prev, color))

\* Controls.handleAddText, then handleAddText
HandleAddText ==
    /\ UserReady
    /\ IF IsBlank(activeState.defaultTextContent)
       THEN NoEffect("AddTextIgnored")
       ELSE /\ ops' = ops + 1
            /\ pending' = pending
            /\ Dispatch("AddText", Key, AddText(Prev, activeState.defaultTextContent, now),
                        [usedIds EXCEPT ![Key] = @ \cup {TextId(Len(Prev.texts), now)}])

\* Editor: onDragEnd of a text of the card on screen in slot
HandleTextDragEnd(slot, id, pos) ==
    /\ OnScreen
    /\ slot \in DisplayedSlots(layoutMode)
    /\ id \in Ids(StateOf(slot).texts)
    /\ DragEdit("TextDragEnd", slot, TextDragEnd(Prev, id, pos.x, pos.y))

\* Controls lists activeState.texts with an edit box, a bold and a remove button.
HandleEditText(id, newContent) ==
    /\ id \in Ids(activeState.texts)
    /\ Edit("EditText", EditText(Prev, id, newContent))

HandleToggleTextBold(id) ==
    /\ id \in Ids(activeState.texts)
    /\ Edit("ToggleTextBold", ToggleTextBold(Prev, id))

HandleRemoveText(id) ==
    /\ id \in Ids(activeState.texts)
    /\ RemoveEdit("RemoveText", id, RemoveText(Prev, id))

\* handleAddQrCode up to its await
HandleAddQrCode_NoCheck(url) ==
    /\ UserReady
    /\ Request("AddQrCode", "qr", Key, url)

HandleAddQrCode(url) ==
    /\ UserReady
    /\ IF url = ""
       THEN NoEffect("AddQrCodeRejected")
       ELSE Request("AddQrCode", "qr", Key, url)

\* QRCode.toDataURL resolved: the rest of handleAddQrCode, with the
\* setActiveState the handler closed over
QrCodeEncoded_AtCompletion ==
    /\ Running
    /\ \E req \in pending :
        /\ req.kind = "qr"
        /\ pending' = pending \ {req}
        /\ ops' = ops
        /\ Dispatch("QrCodeAdded", Key, AddQrCode(Prev, <<"qr", req.arg>>, now),
                    [usedIds EXCEPT ![Key] = @ \cup {QrId(Len(Prev.qrCodes), now)}])

QrCodeEncoded ==
    /\ Running
    /\ \E req \in pending :
        /\ req.kind = "qr"
        /\ pending' = pending \ {req}
        /\ ops' = ops
        /\ LET prev == heap[editorStates[req.key]] IN
           Dispatch("QrCodeAdded", req.key, AddQrCode(prev, <<"qr", req.arg>>, now),
                    [usedIds EXCEPT ![req.key] = @ \cup {QrId(Len(prev.qrCodes), now)}])

\* QRCode.toDataURL rejected: the catch block
QrCodeFailed_AppendsAnyway ==
    /\ Running
    /\ \E req \in pending :
        /\ req.kind = "qr"
        /\ pending' = pending \ {req}
        /\ ops' = ops
        /\ LET prev == heap[editorStates[req.key]] IN
           Dispatch("QrCodeFailed", req.key, AddQrCode(prev, <<"qr", req.arg>>, now),
                    [usedIds EXCEPT ![req.key] = @ \cup {QrId(Len(prev.qrCodes), now)}])

QrCodeFailed ==
    /\ Running
    /\ \E req \in pending :
        /\ req.kind = "qr"
        /\ pending' = pending \ {req}
        /\ lastOp' = [op |-> "QrCodeFailed", key |-> "none"]
        /\ UNCHANGED <<layoutMode, activeEditor, canvasMargins, editorStates, heap,
                       templates, now, editorStageRefs, editorRef, pc, job,
                       container, printed, printVersion, crashed, ops, budget,
                       stored, bootStored, imageFit, persistError, stageSize,
                       usedIds>>

OnQrCodeDragEnd(slot, id, pos) ==
    /\ OnScreen
    /\ slot \in DisplayedSlots(layoutMode)
    /\ id \in Ids(StateOf(slot).qrCodes)
    /\ DragEdit("QrCodeDragEnd", slot, QrCodeDragEnd(Prev, id, pos.x, pos.y))

HandleRemoveQrCode(id) ==
    /\ id \in Ids(activeState.qrCodes)
    /\ RemoveEdit("RemoveQrCode", id, RemoveQrCode(Prev, id))

-----------------------------------------------------------------------------
(* Template store                                                           *)

\* saveTemplate up to its await: activeState is read before the thumbnail is
\* generated.
SaveTemplate(name) ==
    /\ UserReady
    /\ IF name = ""
       THEN NoEffect("SaveTemplateRejected")
       ELSE Request("SaveTemplate", "thumbnail", ActiveSlot(layoutMode, activeEditor),
                    [name |-> name, state |-> activeState])

\* generateThumbnail resolved: the rest of saveTemplate, and the persist
\* effect of the render that follows
TemplateSaved ==
    /\ Running
    /\ \E req \in pending :
        /\ req.kind = "thumbnail"
        /\ pending' = pending \ {req}
        /\ templates' = UpsertTemplate(templates,
              NewTemplate(req.arg.name, req.arg.state, GenerateThumbnail(req.arg.state)))
        /\ \E accepted \in BOOLEAN :
              /\ stored' = PersistTemplates(stored, templates', accepted)
              /\ persistError' = ~accepted
        /\ lastOp' = [op |-> "TemplateSaved", key |-> req.key]
        /\ UNCHANGED <<layoutMode, activeEditor, canvasMargins, editorStates, heap,
                       now, editorStageRefs, editorRef, pc, job, container, printed,
                       printVersion, crashed, ops, budget, bootStored, imageFit, stageSize,
                       usedIds>>

\* onClick={() => loadTemplate(t)} on a saved template
LoadTemplateAt(i) ==
    /\ i \in DOMAIN templates
    /\ Edit("LoadTemplate", LoadTemplate(Prev, templates[i]))

\* deleteTemplate: window.confirm, then the filter and the persist effect of
\* the render that follows
DeleteTemplate(i, confirmed) ==
    /\ UserReady
    /\ i \in DOMAIN templates
    /\ IF confirmed
       THEN /\ templates' = WithoutTemplate(templates, templates[i].name)
            /\ ops' = ops + 1
            /\ \E accepted \in BOOLEAN :
                  /\ stored' = PersistTemplates(stored, templates', accepted)
                  /\ persistError' = ~accepted
            /\ lastOp' = [op |-> "DeleteTemplate", key |-> "none"]
            /\ UNCHANGED <<layoutMode, activeEditor, canvasMargins, editorStates, heap,
                           now, pending, editorStageRefs, editorRef, pc, job,
                           container, printed, printVersion, crashed, budget,
                           bootStored, imageFit, stageSize, usedIds>>
       ELSE NoEffect("DeleteTemplateDeclined")

-----------------------------------------------------------------------------
(* Print compositor                                                         *)

\* The join before compositing: the draws follow the last await.
JoinComplete_FirstResolved(order, done) == done # {}

JoinComplete(order, done) == Range(order) \subseteq done

\* The capture the preparation starts next: the first of the order not yet started.
NextCapture(order, issued) ==
    order[CHOOSE i \in DOMAIN order :
            /\ order[i] \notin issued
            /\ \A j \in DOMAIN order : order[j] \notin issued => i <= j]

\* The slot whose state the Editor behind a stage handle renders.
SlotShown(stageKey) == IF stageKey = "single" THEN "top-left" ELSE stageKey

\* stage.toCanvas({ pixelRatio }): the raster of the stage as it is rendered
\* when the capture is started.
Shot(stageKey) == [card |-> stageKey, state |-> StateOf(SlotShown(stageKey))]

\* printContainer.innerHTML = ""; printContainer.appendChild(printCanvas)
Raster(id, cards) == [kind |-> "raster", cards |-> cards, job |-> id]

\* What setPrintVersion's re-render does to the DOM children of the print
\* container: editorPanelContent is recomputed, but its elements have the
\* types and positions of the ones already rendered, so React updates the
\* nodes it holds (detached by the swap) and inserts nothing.
ContainerAfterRerender(c) == c

\* handlePrint: react-to-print calls onBeforePrint (preparePrintContent) and,
\* once its promise resolves, prints the content of contentRef. This action
\* is preparePrintContent up to its first await or early return.
HandlePrint(ctxOk) ==
    /\ UserReady
    /\ pc = "idle"
    /\ ops' = ops + 1
    /\ lastOp' = [op |-> "Print", key |-> "none"]
    /\ LET order == CaptureOrder(layoutMode)
           ready == StagesReady(layoutMode, editorStageRefs, editorRef)
           started == ctxOk /\ ready
       IN /\ job' = [id |-> job.id + 1,
                     layout |-> layoutMode,
                     margins |-> canvasMargins,
                     missing |-> ~ready,
                     issued |-> IF started THEN {order[1]} ELSE {},
                     done |-> {},
                     drawn |-> {},
                     result |-> IF started THEN "none" ELSE "returned",
                     outcome |-> "none",
                     atStart |-> [k \in Slots |-> StateOf(k)],
                     shots |-> IF started THEN {Shot(order[1])} ELSE {}]
          /\ pc' = IF started THEN "awaiting" ELSE "dialog"
          /\ printed' = IF started THEN printed ELSE container
    /\ stageSize' = StagesAfterCapture(stageSize, job'.issued)
    /\ UNCHANGED <<layoutMode, activeEditor, canvasMargins, editorStates, heap,
                   templates, now, pending, editorStageRefs, editorRef, container,
                   printVersion, crashed, budget, stored, bootStored, imageFit, persistError, usedIds>>

\* stage.toCanvas resolved: the preparation resumes, starts the next capture
\* or, after the last one, draws the cards, swaps the container content and
\* returns, and react-to-print prints the container.
CaptureResolved ==
    /\ Running
    /\ pc = "awaiting"
    /\ LET order == CaptureOrder(job.layout)
           done == job.done \cup (job.issued \ job.done)
       IN IF JoinComplete(order, done)
          THEN /\ job' = [job EXCEPT
                            !.done = done,
                            !.drawn = {[card |-> k, rect |-> DestRect(job.layout, job.margins, k)] :
                                          k \in done},
                            !.result = "swapped"]
               /\ container' = Raster(job.id, done)
               /\ printed' = Raster(job.id, done)
               /\ pc' = "dialog"
          ELSE /\ job' = [job EXCEPT
                            !.done = done,
                            !.issued = @ \cup {NextCapture(order, job.issued)},
                            !.shots = @ \cup {Shot(NextCapture(order, job.issued))}]
               /\ UNCHANGED <<container, printed, pc>>
    /\ stageSize' = StagesAfterCapture(stageSize, job'.issued \ job.issued)
    /\ lastOp' = [op |-> "CaptureResolved", key |-> "none"]
    /\ UNCHANGED <<layoutMode, activeEditor, canvasMargins, editorStates, heap,
                   templates, now, pending, editorStageRefs, editorRef,
                   printVersion, crashed, ops, budget, stored, bootStored, imageFit, persistError, usedIds>>

\* stage.toCanvas rejected: preparePrintContent rejects, react-to-print does
\* not print and does not call onAfterPrint.
CaptureRejected_AfterSwap ==
    /\ Running
    /\ pc = "awaiting"
    /\ job' = [job EXCEPT !.result = "rejected"]
    /\ pc' = "idle"
    /\ container' = Raster(job.id, job.done)
    /\ lastOp' = [op |-> "CaptureRejected", key |-> "none"]
    /\ UNCHANGED <<layoutMode, activeEditor, canvasMargins, editorStates, heap,
                   templates, now, pending, editorStageRefs, editorRef,
                   printed, printVersion, crashed, ops, budget,
                   stored, bootStored, imageFit, persistError, stageSize, usedIds>>

CaptureRejected ==
    /\ Running
    /\ pc = "awaiting"
    /\ job' = [job EXCEPT !.result = "rejected"]
    /\ pc' = "idle"
    /\ lastOp' = [op |-> "CaptureRejected", key |-> "none"]
    /\ UNCHANGED <<layoutMode, activeEditor, canvasMargins, editorStates, heap,
                   templates, now, pending, editorStageRefs, editorRef, container,
                   printed, printVersion, crashed, ops, budget,
                   stored, bootStored, imageFit, persistError, stageSize, usedIds>>

\* The print dialog is closed (printed or cancelled): react-to-print calls
\* onAfterPrint, which bumps printVersion to re-render the editor.
OnAfterPrint(outcome) ==
    /\ ~crashed
    /\ pc = "dialog"
    /\ job' = [job EXCEPT !.outcome = outcome]
    /\ printVersion' = printVersion + 1
    /\ container' = ContainerAfterRerender(container)
    /\ pc' = "idle"
    /\ lastOp' = [op |-> "AfterPrint", key |-> "none"]
    /\ UNCHANGED <<layoutMode, activeEditor, canvasMargins, editorStates, heap,
                   templates, now, pending, editorStageRefs, editorRef, printed,
                   crashed, ops, budget,
                   stored, bootStored, imageFit, persistError, stageSize, usedIds>>

-----------------------------------------------------------------------------
(* Specifications                                                           *)

LayoutActions ==
    \/ \E mode \in LayoutModes : LayoutChange(mode)
    \/ \E slot \in Slots : ClickCard(slot)

StyleActions ==
    \/ \E color \in Colors : HandleBorderColorChange(color)
    \/ \E thickness \in Thicknesses : HandleBorderThicknessChange(thickness)
    \/ \E radius \in Radii : HandleCornerRadiusChange(radius)
    \/ \E scale \in Scales : HandleScaleChange(scale)
    \/ \E rotation \in Rotations : HandleRotationChange(rotation)
    \/ \E content \in Contents : HandleDefaultTextContentChange(content)
    \/ \E size \in FontSizes : HandleDefaultTextFontSizeChange(size)
    \/ \E color \in TextColors : HandleDefaultTextColorChange(color)

ImageActions ==
    \/ ImageChange("data:image/png")
    \/ HandleImageUpload
    \/ HandleRemoveImage

TextActions ==
    \/ HandleAddText
    \/ \E slot \in Slots : \E id \in Ids(StateOf(slot).texts), pos \in DragPositions :
          HandleTextDragEnd(slot, id, pos)
    \/ \E id \in Ids(activeState.texts), content \in {Str_Hello} : HandleEditText(id, content)
    \/ \E id \in Ids(activeState.texts) : HandleToggleTextBold(id)
    \/ \E id \in Ids(activeState.texts) : HandleRemoveText(id)

QrActions ==
    \/ \E url \in Urls : HandleAddQrCode(url)
    \/ QrCodeEncoded
    \/ QrCodeFailed
    \/ \E slot \in Slots : \E id \in Ids(StateOf(slot).qrCodes), pos \in DragPositions :
          OnQrCodeDragEnd(slot, id, pos)
    \/ \E id \in Ids(activeState.qrCodes) : HandleRemoveQrCode(id)

TemplateActions ==
    \/ \E name \in TemplateNames : SaveTemplate(name)
    \/ TemplateSaved
    \/ \E i \in DOMAIN templates : LoadTemplateAt(i)
    \/ \E i \in DOMAIN templates, confirmed \in BOOLEAN : DeleteTemplate(i, confirmed)

PrintActions ==
    \/ \E stageKey \in Slots \cup {"single"} : StageReady(stageKey)
    \/ \E side \in {"top", "bottom", "left", "right"}, margin \in MarginValues :
          CanvasMarginChange(side, margin)
    \/ \E ctxOk \in BOOLEAN : HandlePrint(ctxOk)
    \/ CaptureResolved
    \/ CaptureRejected
    \/ \E outcome \in {"printed", "cancelled"} : OnAfterPrint(outcome)

Next ==
    \/ LayoutActions
    \/ StyleActions
    \/ ImageActions
    \/ TextActions
    \/ QrActions
    \/ TemplateActions
    \/ PrintActions
    \/ Tick

Spec == Init /\ [][Next]_vars

\* Editing only: the layout coordinator, the mutation handlers and the
\* template store, at one clock value.
InitEdit == InitWith(MaxOpsEdit)
NextEdit ==
    \/ LayoutActions
    \/ StyleActions
    \/ ImageActions
    \/ TextActions
    \/ QrActions
    \/ TemplateActions
SpecEdit == InitEdit /\ [][NextEdit]_vars

\* Dragging: elements added to the cards of a multi-card layout and dragged
\* on the selected card and on the other cards.
InitDrag == InitWith(MaxOpsDrag)
NextDrag ==
    \/ \E mode \in {"2x3", "4cards"} : LayoutChange(mode)
    \/ \E slot \in Slots : ClickCard(slot)
    \/ HandleAddText
    \/ \E slot \in Slots : \E id \in Ids(StateOf(slot).texts), pos \in DragPositions :
          HandleTextDragEnd(slot, id, pos)
    \/ \E url \in {"https://example.com"} : HandleAddQrCode(url)
    \/ QrCodeEncoded
    \/ \E slot \in Slots : \E id \in Ids(StateOf(slot).qrCodes), pos \in DragPositions :
          OnQrCodeDragEnd(slot, id, pos)
SpecDrag == InitDrag /\ [][NextDrag]_vars

\* Captures: a print preparation of a multi-card layout with edits of the
\* cards and of the margins while its captures are awaited.
InitShot == InitWith(MaxOpsShot)
NextShot ==
    \/ \E mode \in {"2x3", "4cards"} : LayoutChange(mode)
    \/ \E slot \in {"top-right", "bottom-right"} : ClickCard(slot)
    \/ \E stageKey \in Slots : StageReady(stageKey)
    \/ HandlePrint(TRUE)
    \/ CaptureResolved
    \/ \E thickness \in {10} : HandleBorderThicknessChange(thickness)
    \/ \E margin \in {10} : CanvasMarginChange("top", margin)
SpecShot == InitShot /\ [][NextShot]_vars

\* Clip paths: the border sliders over their ranges in every layout.
InitClip == InitWith(MaxOpsClip)
NextClip ==
    \/ \E mode \in LayoutModes : LayoutChange(mode)
    \/ \E thickness \in SliderThicknesses : HandleBorderThicknessChange(thickness)
    \/ \E radius \in SliderRadii : HandleCornerRadiusChange(radius)
SpecClip == InitClip /\ [][NextClip]_vars

\* Removal: texts and QR stickers added to and removed from one card.
InitRemove == InitWith(MaxOpsRemove)
NextRemove ==
    \/ HandleAddText
    \/ \E id \in Ids(activeState.texts) : HandleRemoveText(id)
    \/ \E url \in {"https://example.com"} : HandleAddQrCode(url)
    \/ QrCodeEncoded
    \/ \E id \in Ids(activeState.qrCodes) : HandleRemoveQrCode(id)
SpecRemove == InitRemove /\ [][NextRemove]_vars

\* Element ids: adding, editing and removing texts and QR stickers while the
\* clock advances.
InitIds == InitWith(MaxOpsIds)
NextIds ==
    \/ TextActions
    \/ QrActions
    \/ Tick
SpecIds == InitIds /\ [][NextIds]_vars

\* Printing: layouts, stage handles, margins and the print operation.
InitPrint == InitWith(MaxOpsPrint)
NextPrint ==
    \/ LayoutActions
    \/ PrintActions
    \/ HandleAddText
SpecPrint == InitPrint /\ [][NextPrint]_vars

\* Templates: saving, loading and deleting, with the edits that change what
\* a template stores and what a load may overwrite.
InitTpl == InitWith(MaxOpsTpl)
NextTpl ==
    \/ TemplateActions
    \/ \E slot \in Slots : ClickCard(slot)
    \/ \E mode \in {"2x3"} : LayoutChange(mode)
    \/ \E thickness \in Thicknesses : HandleBorderThicknessChange(thickness)
    \/ \E content \in {Str_Hello} : HandleDefaultTextContentChange(content)
    \/ HandleAddText
    \/ \E id \in Ids(activeState.texts) : HandleRemoveText(id)
SpecTpl == InitTpl /\ [][NextTpl]_vars

\* The image fit: an image of each sample size is uploaded to the top-left
\* card and decoded, and the layout, with it the card size, changes.
InitFit == InitWith(MaxOpsFit)
NextFit ==
    \/ ImageChange("data:image/png")
    \/ HandleImageUpload
    \/ \E image \in ImageSizes : ImageDecoded(image)
    \/ \E mode \in LayoutModes : LayoutChange(mode)
SpecFit == InitFit /\ [][NextFit]_vars

\* The template store: start-up from what the storage holds, then saving,
\* loading and deleting, with the edits that change what a save stores.
InitStore == \E saved \in BootValues, accepted \in BOOLEAN : InitFrom(MaxOpsStore, saved, accepted)
NextStore ==
    \/ TemplateActions
    \/ \E thickness \in Thicknesses : HandleBorderThicknessChange(thickness)
    \/ HandleAddText
SpecStore == InitStore /\ [][NextStore]_vars

\* Edit routing: layout changes and card clicks, with one synchronous edit
\* and one asynchronous add.
InitRoute == InitWith(MaxOpsRoute)
NextRoute ==
    \/ LayoutActions
    \/ \E thickness \in {10} : HandleBorderThicknessChange(thickness)
    \/ \E url \in {"https://example.com"} : HandleAddQrCode(url)
    \/ QrCodeEncoded
SpecRoute == InitRoute /\ [][NextRoute]_vars

\* Print geometry: a print in each layout with each margin setting of a
\* sample of the sliders' range, the stage handles of the layout set.
InitGeom ==
    \E mode \in LayoutModes, margins \in [{"top", "bottom", "left", "right"} -> GeomMargins] :
        /\ layoutMode = mode
        /\ activeEditor = "top-left"
        /\ canvasMargins = margins
        /\ editorStates = [s \in Slots |-> 0]
        /\ heap = [i \in ObjIds |-> initialEditorState]
        /\ templates = <<>>
        /\ now = 0
        /\ pending = {}
        /\ editorStageRefs = [s \in Slots |-> s \in MountedStages(mode)]
        /\ editorRef = TRUE
        /\ pc = "idle"
        /\ job = NoJob
        /\ container = LiveEditor
        /\ printed = [kind |-> "none", cards |-> {}, job |-> 0]
        /\ printVersion = 0
        /\ crashed = FALSE
        /\ ops = 0
        /\ budget = MaxOpsGeom
        /\ lastOp = [op |-> "init", key |-> "none"]
        /\ usedIds = [s \in Slots |-> {}]
        /\ stored = Stringify(<<>>)
        /\ bootStored = NoItem
        /\ persistError = FALSE
        /\ stageSize = StagesRendered(StagesRendered([k \in StageKeys |-> NoStage], "current"),
                                      mode)
        /\ imageFit = NoFit(CanvasSize(mode))
NextGeom ==
    \/ \E ctxOk \in BOOLEAN : HandlePrint(ctxOk)
    \/ CaptureResolved
    \/ CaptureRejected
    \/ \E outcome \in {"printed", "cancelled"} : OnAfterPrint(outcome)
SpecGeom == InitGeom /\ [][NextGeom]_vars

-----------------------------------------------------------------------------
(* Claims                                                                   *)

\* The handlers that apply an update through setActiveState, by the name
\* they leave in lastOp.
SyncMutationOps ==
    {"RemoveImage", "BorderColorChange", "BorderThicknessChange", "CornerRadiusChange",
     "ScaleChange", "RotationChange", "DefaultTextContentChange",
     "DefaultTextFontSizeChange", "DefaultTextColorChange", "AddText", "TextDragEnd",
     "EditText", "ToggleTextBold", "RemoveText", "QrCodeDragEnd", "RemoveQrCode",
     "LoadTemplate"}
AsyncMutationOps == {"ImageUpload", "QrCodeAdded"}
MutationOps == SyncMutationOps \cup AsyncMutationOps

\* Across a step, slot s refers to the same object and that object is as it was.
SlotUntouched(s) ==
    /\ editorStates'[s] = editorStates[s]
    /\ heap'[editorStates'[s]] = heap[editorStates[s]]

\* The CardState of slot s after a step.
StateAfter(s) == heap'[editorStates'[s]]

\* After a step, slot k refers to an object no other slot refers to.
OwnObjectAfter(k) == \A s \in Slots \ {k} : editorStates'[s] # editorStates'[k]

\* C1 (as stated): every mutation routed through setActiveState replaces the
\* CardState of the slot that is active when the update is applied, and leaves
\* the other three slots' CardStates unchanged.
C1_Original ==
    [][lastOp'.op \in MutationOps =>
          /\ OwnObjectAfter(EditorKey(layoutMode, activeEditor))
          /\ \A s \in Slots \ {EditorKey(layoutMode, activeEditor)} : SlotUntouched(s)]_vars

\* C1 (amended): every mutation routed through setActiveState replaces the
\* CardState of exactly one slot, the one setActiveState resolved when the
\* handler was invoked (for the asynchronous image and QR adds, when the
\* request was made), and leaves the other three slots' references and
\* objects unchanged, also while slots still share the initial object.
C1_Theorem ==
    [][/\ lastOp'.op \in MutationOps =>
            /\ lastOp'.key \in Slots
            /\ OwnObjectAfter(lastOp'.key)
            /\ \A s \in Slots \ {lastOp'.key} : SlotUntouched(s)
       /\ lastOp'.op \in SyncMutationOps =>
            lastOp'.key = EditorKey(layoutMode, activeEditor)
       /\ lastOp'.op \in AsyncMutationOps =>
            \E req \in pending \ pending' : req.key = lastOp'.key
       /\ \A req \in pending' \ pending :
            req.kind \in {"image", "qr"} => req.key = EditorKey(layoutMode, activeEditor)
      ]_vars

\* A QR sticker was added to a slot that is no longer the edit target, while
\* two other slots still share the initial state object.
C1_Witness ==
    /\ lastOp.op = "QrCodeAdded"
    /\ lastOp.key # EditorKey(layoutMode, activeEditor)
    /\ Len(StateOf(lastOp.key).qrCodes) = 1
    /\ \E s, t \in Slots \ {lastOp.key} : s # t /\ editorStates[s] = 0 /\ editorStates[t] = 0

FourGrid(mode) == mode = "4cards" \/ mode = "4cards-portrait"

\* The print container holds the raster of the current print preparation.
SwappedByJob == container.kind = "raster" /\ container.job = job.id /\ job.id > 0

\* C2: in a 4-grid print preparation nothing is drawn into the combined canvas
\* and the print container is not replaced before all four captures have
\* resolved, and the composite placed in the container holds all four cards.
C2_Theorem ==
    (job.id > 0 /\ FourGrid(job.layout)) =>
        /\ job.done # Slots => (job.drawn = {} /\ ~SwappedByJob)
        /\ SwappedByJob =>
              /\ container.cards = Slots
              /\ {d.card : d \in job.drawn} = Slots
              /\ printed = container

\* A 4-grid preparation placed its composite of all four cards in the container.
C2_Witness ==
    /\ FourGrid(job.layout)
    /\ SwappedByJob
    /\ container.cards = Slots
    /\ job.done = Slots

\* C3: in a multi-card print preparation every capture has been started when
\* the preparation waits for the first capture result.
C3_Claim ==
    (pc = "awaiting" /\ job.layout # "current" /\ job.done = {}) =>
        job.issued = Range(CaptureOrder(job.layout))

\* C4: when a stage handle the layout requires is missing at print
\* preparation, the platform print flow is not carried out for that request.
C4_Claim == ~(pc = "dialog" /\ job.id > 0 /\ job.missing)

\* A stage handle the current layout requires is null.
C5_HandleMissing ==
    \/ layoutMode = "2x3" /\ (~editorStageRefs["top-left"] \/ ~editorStageRefs["top-right"])
    \/ FourGrid(layoutMode) /\ \E s \in Slots : ~editorStageRefs[s]
    \/ layoutMode = "current" /\ ~editorRef

\* C5: a print preparation that runs while a required stage handle is null
\* returns without starting a capture, without replacing the print container's
\* content and without changing a CardState, the margins, the layout mode or
\* the templates.
C5_Theorem ==
    [][(lastOp'.op = "Print" /\ C5_HandleMissing) =>
          /\ job'.result = "returned"
          /\ job'.issued = {}
          /\ job'.drawn = {}
          /\ container' = container
          /\ editorStates' = editorStates
          /\ heap' = heap
          /\ canvasMargins' = canvasMargins
          /\ layoutMode' = layoutMode
          /\ templates' = templates]_vars

\* A 4-grid preparation returned early with some, but not all, handles set.
C5_Witness ==
    /\ lastOp.op = "Print"
    /\ FourGrid(job.layout)
    /\ job.missing
    /\ job.result = "returned"
    /\ \E s, t \in Slots : editorStageRefs[s] /\ ~editorStageRefs[t]

\* C6: once the restore step has run after a preparation that swapped the
\* container content, the container holds the live editor again.
C6_Claim ==
    (lastOp.op = "AfterPrint" /\ job.result = "swapped") => container.kind = "editor"

Distinct(elements) ==
    \A i, j \in DOMAIN elements : elements[i].id = elements[j].id => i = j

\* C7: immediately after every add, the ids in the card's texts are pairwise
\* distinct and the ids in its qrCodes are pairwise distinct.
C7_Claim ==
    lastOp.op \in {"AddText", "QrCodeAdded"} =>
        /\ Distinct(StateOf(lastOp.key).texts)
        /\ Distinct(StateOf(lastOp.key).qrCodes)

IdSeq(elements) == [i \in DOMAIN elements |-> elements[i].id]

\* C8: drag-end, content edit and bold toggle leave every element id as it
\* was, and an add never gives an element an id that was given to an element
\* of the same card before.
C8_Claim ==
    [][/\ lastOp'.op \in {"TextDragEnd", "EditText", "ToggleTextBold", "QrCodeDragEnd"} =>
            \A s \in Slots :
                /\ IdSeq(StateAfter(s).texts) = IdSeq(StateOf(s).texts)
                /\ IdSeq(StateAfter(s).qrCodes) = IdSeq(StateOf(s).qrCodes)
       /\ lastOp'.op = "AddText" =>
            LET after == StateAfter(lastOp'.key).texts IN
            after[Len(after)].id \notin usedIds[lastOp'.key]
       /\ lastOp'.op = "QrCodeAdded" =>
            LET after == StateAfter(lastOp'.key).qrCodes IN
            after[Len(after)].id \notin usedIds[lastOp'.key]
      ]_vars

StylingFields ==
    {"borderColor", "borderThickness", "cornerRadius", "defaultTextContent",
     "defaultTextFontSize", "defaultTextColor"}

\* C9: a saved template holds the styling values the card had when it was
\* saved, and loading a template sets the card's styling fields to the
\* template's values and leaves image, texts, qrCodes, scale and rotation as
\* they were before the load.
C9_Claim ==
    [][/\ lastOp'.op = "TemplateSaved" =>
            \E req \in pending \ pending' : \E i \in DOMAIN templates' :
                /\ templates'[i].name = req.arg.name
                /\ \A f \in StylingFields : templates'[i][f] = req.arg.state[f]
       /\ lastOp'.op = "LoadTemplate" =>
            LET before == StateOf(lastOp'.key)
                after == StateAfter(lastOp'.key)
            IN /\ \E i \in DOMAIN templates :
                      \A f \in StylingFields : after[f] = templates[i][f]
               /\ after.imageDataUrl = before.imageDataUrl
               /\ after.texts = before.texts
               /\ after.qrCodes = before.qrCodes
               /\ after.scale = before.scale
               /\ after.rotation = before.rotation
      ]_vars

\* C10: a template holds its name, its thumbnail and styling only: never
\* image data, a text-element list, a QR-element list, scale or rotation.
C10_Claim ==
    \A i \in DOMAIN templates :
        DOMAIN templates[i] \cap {"imageDataUrl", "texts", "qrCodes", "scale", "rotation"} = {}

TemplateNamesOf(ts) == [i \in DOMAIN ts |-> ts[i].name]

NamesDistinct(ts) == \A i, j \in DOMAIN ts : ts[i].name = ts[j].name => i = j

\* C11: the names in the template collection stay pairwise distinct under any
\* interleaving of saves and deletes; a completed save of a name the
\* collection holds replaces that entry where it is and changes no other
\* entry, and a completed save of a new name appends one entry.
C11_Theorem ==
    [][NamesDistinct(templates) =>
          /\ NamesDistinct(templates')
          /\ lastOp'.op = "TemplateSaved" =>
                \E req \in pending \ pending' :
                    IF \E i \in DOMAIN templates : templates[i].name = req.arg.name
                    THEN /\ TemplateNamesOf(templates') = TemplateNamesOf(templates)
                         /\ \A i \in DOMAIN templates :
                               templates[i].name # req.arg.name => templates'[i] = templates[i]
                    ELSE /\ Len(templates') = Len(templates) + 1
                         /\ SubSeq(templates', 1, Len(templates)) = templates
                         /\ templates'[Len(templates')].name = req.arg.name
      ]_vars

\* Two saves overlapped, and the one that completed replaced the first of two
\* stored templates where it was.
C11_Witness ==
    /\ lastOp.op = "TemplateSaved"
    /\ pending # {}
    /\ Len(templates) = 2
    /\ templates[1].name = "Postcard"
    /\ templates[1] # SavedPostcard
    /\ templates[2] = SavedGift

\* Rectangles are in half device pixels, as DestRect gives them.
Overlap(r1, r2) ==
    /\ r1.x < r2.x + r2.w
    /\ r2.x < r1.x + r1.w
    /\ r1.y < r2.y + r2.h
    /\ r2.y < r1.y + r1.h

Inside(r, outer) ==
    /\ r.w > 0
    /\ r.h > 0
    /\ outer.x <= r.x
    /\ outer.y <= r.y
    /\ r.x + r.w <= outer.x + outer.w
    /\ r.y + r.h <= outer.y + outer.h

RECURSIVE SumOfAreas(_)
SumOfAreas(drawn) ==
    IF drawn = {} THEN 0
    ELSE LET d == CHOOSE d \in drawn : TRUE
         IN d.rect.w * d.rect.h + SumOfAreas(drawn \ {d})

\* The combined canvas and its content rectangle (canvas minus the scaled
\* margins) for a layout and a margin setting.
CanvasRect(mode) ==
    [x |-> 0, y |-> 0,
     w |-> 2 * PrintWidth(mode) * multiplier, h |-> 2 * PrintHeight(mode) * multiplier]

ContentRect(mode, margins) ==
    [x |-> 2 * margins.left * multiplier,
     y |-> 2 * margins.top * multiplier,
     w |-> 2 * (PrintWidth(mode) - margins.left - margins.right) * multiplier,
     h |-> 2 * (PrintHeight(mode) - margins.top - margins.bottom) * multiplier]

\* C12: in every layout and for every margin setting the rectangles the
\* compositor draws the cards into do not overlap, lie in the combined canvas
\* and cover exactly the content rectangle, so their areas and the margin
\* area add up to the canvas area; in 2x3 they are the left and right halves
\* of the content rectangle at full content height.
C12_Theorem ==
    job.result = "swapped" =>
        LET canvas == CanvasRect(job.layout)
            content == ContentRect(job.layout, job.margins)
        IN /\ {d.card : d \in job.drawn} = Range(CaptureOrder(job.layout))
           /\ \A d \in job.drawn : Inside(d.rect, canvas) /\ Inside(d.rect, content)
           /\ \A d, e \in job.drawn : d.card # e.card => ~Overlap(d.rect, e.rect)
           /\ SumOfAreas(job.drawn) = content.w * content.h
           /\ SumOfAreas(job.drawn) + (canvas.w * canvas.h - content.w * content.h)
                 = canvas.w * canvas.h
           /\ job.layout = "2x3" =>
                 \A d \in job.drawn :
                    /\ 2 * d.rect.w = content.w
                    /\ d.rect.h = content.h
                    /\ d.rect.y = content.y
                    /\ d.rect.x = IF d.card = "top-left" THEN content.x
                                  ELSE content.x + d.rect.w

\* The 2x3 layout with margins top 10, bottom 10, left 20, right 20: the
\* content is 560 by 380 and the right half, 280 by 380, starts at x = 300.
C12_Witness ==
    /\ job.result = "swapped"
    /\ job.layout = "2x3"
    /\ job.margins = [top |-> 10, bottom |-> 10, left |-> 20, right |-> 20]
    /\ [card |-> "top-right",
        rect |-> [x |-> 2 * 300 * multiplier, y |-> 2 * 10 * multiplier,
                  w |-> 2 * 280 * multiplier, h |-> 2 * 380 * multiplier]] \in job.drawn

\* The routing rule of the layouts: key receives the edit when the layout is
\* mode and the selected slot is selected.
Routed(mode, selected, key) ==
    /\ mode = "current" => key = "top-left"
    /\ mode = "2x3" =>
          /\ key \in {"top-left", "top-right"}
          /\ selected \in {"top-left", "top-right"} => key = selected
    /\ FourGrid(mode) => key = selected

BottomSlotsUntouched == SlotUntouched("bottom-left") /\ SlotUntouched("bottom-right")

\* The selected slot changes only by a card click, which selects the clicked card.
SelectedIsLastClicked ==
    /\ activeEditor' # activeEditor => lastOp'.op = "ClickCard"
    /\ lastOp'.op = "ClickCard" => activeEditor' = lastOp'.key

\* C13 (as stated): every edit goes to the slot the routing rule gives for
\* the layout and the selection at the time the edit is applied: top-left in
\* single layout, top-left or top-right (never a bottom slot) in 2x3, the
\* most recently clicked slot in the 4-grid layouts.
C13_Original ==
    [][/\ SelectedIsLastClicked
       /\ lastOp'.op \in MutationOps =>
            /\ Routed(layoutMode, activeEditor, lastOp'.key)
            /\ layoutMode = "2x3" => BottomSlotsUntouched
      ]_vars

\* C13 (amended): the routing rule holds for the layout and the selection at
\* the time the user triggers the edit; an asynchronous add (QR sticker,
\* image) is applied to the slot the rule gave when it was requested.
C13_Theorem ==
    [][/\ SelectedIsLastClicked
       /\ lastOp'.op \in SyncMutationOps =>
            /\ Routed(layoutMode, activeEditor, lastOp'.key)
            /\ layoutMode = "2x3" => BottomSlotsUntouched
       /\ \A req \in pending' \ pending :
            req.kind \in {"image", "qr"} => Routed(layoutMode, activeEditor, req.key)
       /\ lastOp'.op \in AsyncMutationOps =>
            \E req \in pending \ pending' :
                /\ req.key = lastOp'.key
                /\ \A s \in Slots \ {req.key} : SlotUntouched(s)
      ]_vars

\* An edit made in 2x3 layout while a bottom slot, selected earlier in a
\* 4-grid layout, is still the selected slot: it went to top-left.
C13_Witness ==
    /\ lastOp.op = "BorderThicknessChange"
    /\ layoutMode = "2x3"
    /\ activeEditor = "bottom-left"
    /\ lastOp.key = "top-left"
    /\ StateOf("top-left").borderThickness = 10
    /\ StateOf("bottom-left").borderThickness = 0

\* The stored value found at start-up is not the JSON text of an array.
NotReadableAsList(saved) == saved.item = "none" \/ saved.json # "array"

\* C14: when the stored template collection is missing or cannot be read as
\* a list of templates, the application starts without failing and its
\* template collection is the empty list.
C14_Claim ==
    NotReadableAsList(bootStored) =>
        /\ ~crashed
        /\ lastOp.op = "init" => templates = <<>>

\* The stored item is the JSON text of one array that reads back as ts,
\* element for element and in the same order.
StoredEquals(item, ts) ==
    /\ item.item = "string"
    /\ item.json = "array"
    /\ Len(item.elems) = Len(ts)
    /\ \A i \in DOMAIN ts : ParseTemplate(item.elems[i]) = ts[i]

WithoutIndex(ts, i) ==
    [j \in 1..(Len(ts) - 1) |-> IF j < i THEN ts[j] ELSE ts[j + 1]]

\* after is before without the entry of one name, in memory.
DeletedInMemory(before, after) ==
    \E i \in DOMAIN before :
        /\ after = WithoutIndex(before, i)
        /\ \A j \in DOMAIN after : after[j].name # before[i].name

\* The stored array has no entry named as an entry that left the collection.
DeletedInStorage(before, after, item) ==
    /\ StoredEquals(item, after)
    /\ \A i \in DOMAIN before :
          (\A k \in DOMAIN after : after[k].name # before[i].name) =>
              \A j \in DOMAIN item.elems : item.elems[j].name # before[i].name

C17_Theorem ==
    [][/\ lastOp'.op \in {"AddQrCodeRejected", "SaveTemplateRejected"} =>
             /\ editorStates' = editorStates
             /\ heap' = heap
             /\ templates' = templates
             /\ stored' = stored
             /\ canvasMargins' = canvasMargins
             /\ layoutMode' = layoutMode
             /\ activeEditor' = activeEditor
             /\ pending' = pending
       /\ \A req \in pending' :
             /\ req.kind = "qr" => req.arg # ""
             /\ req.kind = "thumbnail" => req.arg.name # ""
      ]_vars

\* An empty URL was rejected while a card held a text and a thumbnail was
\* being generated.
C17_Witness ==
    /\ lastOp.op = "AddQrCodeRejected"
    /\ \E req \in pending : req.kind = "thumbnail"
    /\ \E s \in Slots : StateOf(s).texts # <<>>

\* C18: when the QR encoding call rejects its input, the failure is caught
\* and no CardState of any slot is changed by the request: neither the step
\* that starts the encoding nor the step that handles its rejection appends
\* a QR element or changes any slot's texts, qrCodes or styling, and the
\* application keeps running.
C18_Theorem ==
    [][lastOp'.op \in {"AddQrCode", "QrCodeFailed"} =>
          /\ editorStates' = editorStates
          /\ heap' = heap
          /\ \A s \in Slots : StateAfter(s) = StateOf(s)
          /\ crashed' = crashed
      ]_vars

\* An encoding was rejected on a card that holds the QR element of an
\* earlier, successful request.
C18_Witness ==
    /\ lastOp.op = "QrCodeFailed"
    /\ \E s \in Slots : Len(StateOf(s).qrCodes) = 1

PrintSteps == {"Print", "CaptureResolved", "CaptureRejected", "AfterPrint"}

PrintPathFailed ==
    \/ lastOp'.op = "CaptureRejected"
    \/ lastOp'.op = "Print" /\ job'.result = "returned" /\ ~job'.missing

OuterSides(slot) ==
    {IF slot \in {"top-left", "top-right"} THEN "top" ELSE "bottom",
     IF slot \in {"top-left", "bottom-left"} THEN "left" ELSE "right"}

\* The distance of a drawn rectangle from each edge of the content area's
\* enclosing canvas, less the part taken by the neighbouring quadrant.
GapOf(rect, side, mode) ==
    LET canvas == CanvasRect(mode) IN
    CASE side = "left" -> rect.x
      [] side = "top" -> rect.y
      [] side = "right" -> canvas.w - (rect.x + rect.w)
      [] side = "bottom" -> canvas.h - (rect.y + rect.h)

\* C21: in both 4-grid layouts each quadrant receives only the canvas margins
\* of the outer edges it borders and 0 on its two inner sides, for every
\* margin setting: as the margins of its Editor, and in the composite, where
\* a quadrant is set off from its outer edges by those margins and meets its
\* neighbours without a gap.
C21_Theorem ==
    /\ FourGrid(layoutMode) =>
          \A slot \in Slots, side \in {"top", "bottom", "left", "right"} :
             EditorMargins(layoutMode, slot, canvasMargins)[side] =
                IF side \in OuterSides(slot) THEN canvasMargins[side] ELSE 0
    /\ job.result = "swapped" /\ FourGrid(job.layout) =>
          /\ \A d \in job.drawn : \A side \in OuterSides(d.card) :
                GapOf(d.rect, side, job.layout) = 2 * job.margins[side] * multiplier
          /\ \A d, e \in job.drawn :
                /\ d.card = "top-left" /\ e.card = "top-right" => d.rect.x + d.rect.w = e.rect.x
                /\ d.card = "bottom-left" /\ e.card = "bottom-right" => d.rect.x + d.rect.w = e.rect.x
                /\ d.card = "top-left" /\ e.card = "bottom-left" => d.rect.y + d.rect.h = e.rect.y
                /\ d.card = "top-right" /\ e.card = "bottom-right" => d.rect.y + d.rect.h = e.rect.y

\* A four-card sheet with four different margins was composited.
C21_Witness ==
    /\ layoutMode = "4cards"
    /\ job.result = "swapped"
    /\ job.layout = "4cards"
    /\ canvasMargins = [top |-> 10, bottom |-> 20, left |-> 1, right |-> 100]
    /\ job.margins = canvasMargins
    /\ EditorMargins(layoutMode, "bottom-right", canvasMargins) =
          [top |-> 0, bottom |-> 20, left |-> 0, right |-> 100]

\* after is before with one text appended that has the content, the card's
\* default size and colour, and nothing else changed.
TextAppended(before, after, content) ==
    /\ Len(after.texts) = Len(before.texts) + 1
    /\ SubSeq(after.texts, 1, Len(before.texts)) = before.texts
    /\ after.texts[Len(after.texts)].content = content
    /\ after.texts[Len(after.texts)].fontSize = before.defaultTextFontSize
    /\ after.texts[Len(after.texts)].fill = before.defaultTextColor
    /\ [after EXCEPT !.texts = before.texts] = before

\* C22: adding a text with content c to a card appends exactly one element at
\* the end of the card's texts, with content c, the card's default font size
\* and colour and an id that no element of the card has, and changes nothing
\* else of the card or of another card; the Add Text control adds nothing
\* when the default content is empty or only whitespace.
C22_Claim ==
    [][/\ lastOp'.op = "AddText" =>
             /\ TextAppended(StateOf(lastOp'.key), StateAfter(lastOp'.key),
                             activeState.defaultTextContent)
             /\ StateAfter(lastOp'.key).texts[Len(StateAfter(lastOp'.key).texts)].id
                   \notin Ids(StateOf(lastOp'.key).texts)
             /\ \A s \in Slots \ {lastOp'.key} :
                   editorStates[s] # editorStates[lastOp'.key] => StateAfter(s) = StateOf(s)
       /\ lastOp'.op = "AddTextIgnored" =>
             /\ IsBlank(activeState.defaultTextContent)
             /\ editorStates' = editorStates
             /\ heap' = heap
       /\ lastOp'.op = "AddText" => ~IsBlank(activeState.defaultTextContent)
      ]_vars

\* Exact values sig * 2^exp with a sig of any length: a Number times a
\* natural number, without rounding.
ExactTimes(x, n) == [sig |-> DigitsMul(x.sig, DigitsOf(n)), exp |-> x.exp]

MinExp(a, b) == IF a.exp < b.exp THEN a.exp ELSE b.exp
AlignedSig(a, e) == ShiftLeft(a.sig, a.exp - e)

ExactEqual(a, b) == AlignedSig(a, MinExp(a, b)) = AlignedSig(b, MinExp(a, b))

\* |a - b| * 2^k <= b
WithinTwoToMinus(a, b, k) ==
    LET x == AlignedSig(a, MinExp(a, b))
        y == AlignedSig(b, MinExp(a, b))
        diff == IF DigitsLess(x, y) THEN DigitsSub(y, x) ELSE DigitsSub(x, y)
    IN ~DigitsLess(y, ShiftLeft(diff, k))

NumberAtMost(a, b) == ~NumberLess(b, a)

\* The fit of the state is the value of the fit function on the inputs of the
\* state, lies in the available area and touches it on one axis at least.
FitsCanvas ==
    LET d == imageFit.dimensions
        image == imageFit.image
        canvas == imageFit.canvas
    IN /\ d = ImageFit(image.width, image.height, canvas.width, canvas.height)
       /\ NumberAtMost(d.width, NumberOf(canvas.width))
       /\ NumberAtMost(d.height, NumberOf(canvas.height))
       /\ d.width = NumberOf(canvas.width) \/ d.height = NumberOf(canvas.height)
       /\ d.width # Zero /\ d.height # Zero

\* C23 as stated: the fit is a function of its four inputs, fits the
\* available area with equality on one axis, and keeps the aspect ratio
\* exactly: width * image height = height * image width.
C23_Original ==
    imageFit.image # NoImage =>
        /\ FitsCanvas
        /\ ExactEqual(ExactTimes(imageFit.dimensions.width, imageFit.image.height),
                      ExactTimes(imageFit.dimensions.height, imageFit.image.width))

\* C23: the image fit is a deterministic function of (image width, image
\* height, available width, available height); for positive inputs the
\* result fits the available area, with equality on at least one axis, and
\* keeps the image's aspect ratio up to the rounding of its two Number
\* operations: width * image height and height * image width differ by at
\* most 2^-51 of the latter. The dimensions of every state are the value of
\* the function on the inputs of that state, so a rerun of the effect on the
\* same inputs leaves them as they are.
C23_Theorem ==
    imageFit.image # NoImage =>
        /\ FitsCanvas
        /\ WithinTwoToMinus(
              ExactTimes(imageFit.dimensions.width, imageFit.image.height),
              ExactTimes(imageFit.dimensions.height, imageFit.image.width), 51)

\* A 4000 by 3000 image fitted to the 600 by 400 card, then to another card
\* size and to 600 by 400 again: the height is 400 and the width is the
\* Number nearest to 400 * (4000 / 3000), which is not 1600 / 3.
C23_Witness ==
    /\ imageFit.image = [width |-> 4000, height |-> 3000]
    /\ imageFit.canvas = [width |-> 600, height |-> 400]
    /\ ops = 3
    /\ imageFit.dimensions.height = NumberOf(400)
    /\ NumberLess(NumberOf(533), imageFit.dimensions.width)
    /\ NumberLess(imageFit.dimensions.width, NumberOf(534))
    /\ ~ExactEqual(ExactTimes(imageFit.dimensions.width, 3), ExactTimes(NumberOf(1600), 1))

\* C24: in every reachable state the slot whose state the controls show and
\* a template save reads (activeState) is the slot that receives the next
\* edit or template load (the key setActiveState resolves), also in 2x3
\* layout after a bottom slot was selected in a 4-grid layout.
C24_Claim == ActiveSlot(layoutMode, activeEditor) = EditorKey(layoutMode, activeEditor)

DragOps == {"TextDragEnd", "QrCodeDragEnd"}

\* C25: the drag-end of an element of the card in slot S updates the state
\* of slot S and of no other slot, also when S is not the selected slot and
\* when another slot holds an element with the same id.
C25_Claim ==
    [][lastOp'.op \in DragOps =>
          /\ lastOp'.key = lastOp'.slot
          /\ \A s \in Slots \ {lastOp'.slot} :
                heap'[editorStates'[s]] = heap[editorStates[s]]
      ]_vars

\* The completion of request req put its element on the card of slot req.key.
AppliedTo(req) ==
    LET before == heap[editorStates[req.key]]
        after == StateAfter(req.key)
    IN IF req.kind = "qr"
       THEN /\ Len(after.qrCodes) = Len(before.qrCodes) + 1
            /\ after.qrCodes[Len(after.qrCodes)].dataUrl = <<"qr", req.arg>>
            /\ \A i \in DOMAIN before.qrCodes : after.qrCodes[i] = before.qrCodes[i]
       ELSE after.imageDataUrl = req.arg

\* C26: an asynchronous add (a QR sticker being encoded, an image being
\* read) is applied to the slot that was the edit target when the request
\* was made, whatever the selected slot and the layout are when it
\* completes; no other slot, the slot active at completion included, is
\* changed by it.
C26_Theorem ==
    [][/\ \A req \in pending' \ pending :
            req.kind \in {"image", "qr"} => req.key = EditorKey(layoutMode, activeEditor)
       /\ lastOp'.op \in AsyncMutationOps =>
            \E req \in pending \ pending' :
                /\ lastOp'.key = req.key
                /\ AppliedTo(req)
                /\ \A s \in Slots \ {req.key} : SlotUntouched(s)
      ]_vars

\* A QR sticker requested in 2x3 layout with top-left selected and encoded
\* after a click on top-right: it is on top-left, top-right has none.
C26_Witness ==
    /\ lastOp = [op |-> "QrCodeAdded", key |-> "top-left"]
    /\ layoutMode = "2x3"
    /\ activeEditor = "top-right"
    /\ Len(StateOf("top-left").qrCodes) = 1
    /\ Len(StateOf("top-right").qrCodes) = 0
    /\ pending = {}

LayoutChangeKeeps ==
    /\ \A s \in Slots : SlotUntouched(s)
    /\ activeEditor' = activeEditor
    /\ canvasMargins' = canvasMargins
    /\ templates' = templates

\* C28: changing the layout mode changes only the layout mode: the
\* CardStates of the four slots (shown by the new layout or not), the
\* selected slot, the canvas margins and the template collection are
\* unchanged and still held by the running application, so that content
\* edited in a 4-grid slot is there when that layout is selected again.
C28_Claim ==
    [][lastOp'.op = "LayoutChange" => (LayoutChangeKeeps /\ ~crashed')]_vars

WellFormedClip(clip) ==
    /\ clip.rectWidth > 0
    /\ clip.rectHeight > 0
    /\ clip.radius >= 0
    /\ 2 * clip.radius <= clip.rectWidth
    /\ 2 * clip.radius <= clip.rectHeight

\* C29: for every border thickness and corner radius the sliders can set
\* and the card size of every layout, the image clip path of every card on
\* screen is a well-formed rounded rectangle: the inset rectangle has
\* positive width and height, the radius is not negative, and twice the
\* radius exceeds neither the width nor the height of the inset rectangle.
C29_Claim ==
    \A slot \in DisplayedSlots(layoutMode) :
        WellFormedClip(ClipPath(CanvasSize(layoutMode), StateOf(slot).borderThickness,
                                StateOf(slot).cornerRadius))

\* after is before without exactly one element, the one with the id, or
\* before itself when no element has the id.
RemovedById(before, after, id) ==
    IF id \in Ids(before)
    THEN \E i \in DOMAIN before : before[i].id = id /\ after = WithoutIndex(before, i)
    ELSE after = before

\* C30: removing a text (or a QR sticker) by id removes from the card
\* exactly the element with that id, keeps the other elements of the list
\* as they are and in their order, leaves the other list and every other
\* field of the card unchanged, and changes nothing when no element has
\* the id.
C30_Claim ==
    [][/\ lastOp'.op = "RemoveText" =>
            LET before == heap[editorStates[lastOp'.key]]
                after == StateAfter(lastOp'.key)
            IN /\ RemovedById(before.texts, after.texts, lastOp'.id)
               /\ after = [before EXCEPT !.texts = after.texts]
       /\ lastOp'.op = "RemoveQrCode" =>
            LET before == heap[editorStates[lastOp'.key]]
                after == StateAfter(lastOp'.key)
            IN /\ RemovedById(before.qrCodes, after.qrCodes, lastOp'.id)
               /\ after = [before EXCEPT !.qrCodes = after.qrCodes]
      ]_vars

====
